---------------------------- MODULE Spec2Model ----------------------------
(***************************************************************************)
(* Model of the reading generator of the Japanese support add-on           *)
(* (src/reading.py): MecabController.reading turns one line of analyzer    *)
(* output, "surface[reading] surface[reading] ... ", into a furigana       *)
(* string "plain kanji[reading]plain".                                     *)
(*                                                                         *)
(* A Python str is a sequence of Unicode code points (naturals), so that   *)
(* the katakana->hiragana conversion, the character classes of the regular *)
(* expressions and str.strip() are computed and not assumed.               *)
(***************************************************************************)
EXTENDS Integers, Sequences, FiniteSets, TLC

VARIABLES
    pc,         \* position of the call of MecabController.reading
    sent,       \* the escaped text written to the analyzer (reading.py:112-113)
    expr,       \* the line read back from the analyzer (reading.py:116)
    nodes,      \* the list expr.split(" ") that the for loop walks
    nodeIdx,    \* 1-based index of the node the for loop of line 118 is at
    out,        \* the list `out` of emitted segments (reading.py:117)
    ret,        \* the value returned by reading()
    exc,        \* the exception that propagated out of reading(), or "none"
    stderr,     \* what the call wrote to sys.stderr (reading.py:123)
    kakasiLog,  \* the requests the call sent to kakasi.reading, with the node
    mecabProc,  \* MecabController.mecab: 0 is None, n the n-th process started
    kakasiProc, \* KakasiController.kakasi: 0 is None, n the n-th process started
    mecabPipe,  \* answer lines of earlier requests still unread in mecab's stdout
    kakasiPipe, \* answer lines of earlier requests still unread in kakasi's stdout
    mecab,      \* the module global `mecab` (reading.py:399): TRUE while it
                \* holds the controller, FALSE once it is None
    hpc,        \* position of the editor button handler
    handler,    \* the handler that runs: "kaito" (reading.py:334) or
                \* "reading" (quick_actions.py:17)
    src_text,   \* the handler's src_text, the argument of get_reading_for_text
    result,     \* what get_reading_for_text returned to the handler
    noteSrc,    \* note[srcField]
    noteEng,    \* note[englishField]
    info,       \* the showInfo messages of the current click
    hexc,       \* the exception that left the handler, or "none"
    noteAtClick,\* history: the two note fields when the button was clicked
    everRaised, \* history: a call of get_reading_for_text has raised
    currentIndex,   \* VocabWizard.stack.currentIndex()
    back_button,    \* VocabWizard.back_button: [enabled]
    next_button,    \* VocabWizard.next_button: [enabled, visible]
    finish_button,  \* VocabWizard.finish_button: [visible]
    prompt_image_data,       \* VocabWizard.prompt_image_data: <<>> is None,
                             \* <<image>> the selected image
    selected_mnemonic_index, \* VocabWizard.selected_mnemonic_index: <<>> is
                             \* None, <<i>> the index i (from 0)
    image_thumbnails,   \* VocabWizard.image_thumbnails
    mnemonic_list,      \* the widgets of the layout VocabWizard.mnemonic_list
    mnemonic_editors,   \* VocabWizard.mnemonic_editors (not set by __init__)
    queries,    \* the QueryOps of the wizard that are running in the background
    searchNo,   \* history: how many times search_images has run
    genNo,      \* history: how many times generate_mnemonics has run
    ran,        \* history: the callbacks of the latest search that have run, with
                \* their results
    dialog,     \* "open", or "accepted" with what the handler then got from
                \* get_selected_mnemonic and get_prompt_html
    mnemonicPage,       \* the attributes of a MnemonicPage
    promptImagePage,    \* the attributes of a PromptImagePage
    pageQueries         \* the QueryOps of the two pages that are running

\* the frame of MecabController.reading
readingVars == <<pc, sent, expr, nodes, nodeIdx, out, ret, exc, stderr, kakasiLog>>
\* the two analyzer processes
procVars == <<mecabProc, kakasiProc, mecabPipe, kakasiPipe>>
\* the editor, its note and the module global
editorVars ==
    <<mecab, hpc, handler, src_text, result, noteSrc, noteEng, info, hexc,
      noteAtClick, everRaised>>

\* the VocabWizard dialog (src/wizard.py)
wizardVars ==
    <<currentIndex, back_button, next_button, finish_button, prompt_image_data,
      selected_mnemonic_index, image_thumbnails, mnemonic_list, mnemonic_editors,
      queries, searchNo, genNo, ran, dialog>>
\* the pages of src/mnemonic_page.py and src/prompt_image_page.py
pageVars == <<mnemonicPage, promptImagePage, pageQueries>>
dialogVars == <<wizardVars, pageVars>>

vars == <<readingVars, procVars, editorVars, dialogVars>>

-----------------------------------------------------------------------------
(* Bounds of the input space.                                              *)

\* longest surface of the systematically enumerated tokens
MaxSurf == 3
\* longest reading of the systematically enumerated tokens
MaxRead == 3
\* most nodes of a line built from the sample nodes
MaxNodes == 3
\* the most answer lines left unread in a pipe
MaxBacklog == 2

-----------------------------------------------------------------------------
(* Python str and list primitives.                                         *)

Min(a, b) == IF a < b THEN a ELSE b
Max(a, b) == IF a > b THEN a ELSE b

\* an index or slice bound i of a sequence of length n, as Python clamps it
NormIdx(i, n) == IF i < 0 THEN Max(i + n, 0) ELSE Min(i, n)

\* s[start:stop]
Slice(s, start, stop) ==
    SubSeq(s, NormIdx(start, Len(s)) + 1, NormIdx(stop, Len(s)))

\* s[start:]
SliceFrom(s, start) == SubSeq(s, NormIdx(start, Len(s)) + 1, Len(s))

\* s[:stop]
SliceTo(s, stop) == SubSeq(s, 1, NormIdx(stop, Len(s)))

\* s[i] raises IndexError unless -len(s) <= i < len(s)
IndexInRange(s, i) == -Len(s) <= i /\ i < Len(s)

\* s[i], for an index in range
At(s, i) == IF i < 0 THEN s[Len(s) + i + 1] ELSE s[i + 1]

\* sub in s, for str
IsSubstring(sub, s) ==
    \E i \in 0..Len(s) : i + Len(sub) <= Len(s) /\ SubSeq(s, i + 1, i + Len(sub)) = sub

RECURSIVE Concat(_)
\* "".join(list)
Concat(list) == IF list = <<>> THEN <<>> ELSE Head(list) \o Concat(Tail(list))

RECURSIVE SplitFrom(_, _, _)
SplitFrom(s, sep, cur) ==
    IF s = <<>> THEN <<cur>>
    ELSE IF Head(s) = sep THEN <<cur>> \o SplitFrom(Tail(s), sep, <<>>)
    ELSE SplitFrom(Tail(s), sep, Append(cur, Head(s)))

\* s.split(sep) for a one-character separator: empty pieces are kept
Split(s, sep) == SplitFrom(s, sep, <<>>)

\* str.isspace() of one character
IsSpace(c) ==
    \/ c \in 9..13
    \/ c \in 28..32
    \/ c \in {133, 160, 5760, 8232, 8233, 8239, 8287, 12288}
    \/ c \in 8192..8202

RECURSIVE LStrip(_)
LStrip(s) == IF s # <<>> /\ IsSpace(Head(s)) THEN LStrip(Tail(s)) ELSE s

RECURSIVE RStrip(_)
RStrip(s) ==
    IF s # <<>> /\ IsSpace(s[Len(s)]) THEN RStrip(SubSeq(s, 1, Len(s) - 1)) ELSE s

\* Strip, were only the right end stripped
Strip_RightOnly(s) == RStrip(s)
\* s.strip()
Strip(s) == RStrip(LStrip(s))

RECURSIVE Replace(_, _, _)
\* s.replace(old, new) for a non-empty old
Replace(s, old, new) ==
    IF Len(s) < Len(old) THEN s
    ELSE IF SubSeq(s, 1, Len(old)) = old
         THEN new \o Replace(SubSeq(s, Len(old) + 1, Len(s)), old, new)
         ELSE <<Head(s)>> \o Replace(Tail(s), old, new)


-----------------------------------------------------------------------------
(* The two external programs, seen through their controllers.              *)

\* "[" and "]" of the node format, " " between nodes
LBRACKET == <<91>>
RBRACKET == <<93>>
SPACE == <<32>>

\* mecabArgs: --node-format=%m[%f[7]] and --unk-format=%m[] write a token as
\* surface[reading], the reading being empty for an unknown word
NodeFormat(tok) == tok.kanji \o LBRACKET \o tok.reading \o RBRACKET

\* escapeText on one character: "\n" becomes " ", the wave dash U+FF5E
\* becomes "~".  (The <br> and HTML rules of lines 42-44 only touch text that
\* holds "<" or "&".)
EscapeChar(c) == IF c = 10 THEN 32 ELSE IF c = 65374 THEN 126 ELSE c

\* the strings "<br>", "<br />" and "---newline---"
BR == <<60, 98, 114, 62>>
BR_SLASH == <<60, 98, 114, 32, 47, 62>>
PLACEHOLDER == <<45, 45, 45, 110, 101, 119, 108, 105, 110, 101, 45, 45, 45>>

RECURSIVE RemoveTags(_)
\* strip_html, first part: every "<", up to the first ">" after it, is
\* removed (the texts at hand hold no comment, style or script block)
RemoveTags(s) ==
    IF s = <<>> THEN <<>>
    ELSE IF Head(s) = 60 /\ \E q \in 2..Len(s) : s[q] = 62
         THEN LET q == CHOOSE q \in 2..Len(s) :
                           s[q] = 62 /\ \A r \in 2..(q - 1) : s[r] # 62
              IN  RemoveTags(SubSeq(s, q + 1, Len(s)))
         ELSE <<Head(s)>> \o RemoveTags(Tail(s))

\* the number of decimal digits s has from position p on
DigitsAt(s, p) ==
    CHOOSE n \in 0..Max(0, Len(s) - p + 1) :
        /\ \A j \in p..(p + n - 1) : s[j] \in 48..57
        /\ p + n <= Len(s) => s[p + n] \notin 48..57

RECURSIVE DecimalValue(_)
DecimalValue(digits) ==
    IF digits = <<>> THEN 0
    ELSE 10 * DecimalValue(SubSeq(digits, 1, Len(digits) - 1))
           + (digits[Len(digits)] - 48)

RECURSIVE DecodeEntities(_)
\* strip_html, second part: a character reference "&#" digits ";" becomes
\* the character it names (the texts at hand hold no named entity)
DecodeEntities(s) ==
    IF s = <<>> THEN <<>>
    ELSE IF /\ Len(s) >= 4
            /\ s[1] = 38
            /\ s[2] = 35
            /\ DigitsAt(s, 3) >= 1
            /\ 3 + DigitsAt(s, 3) <= Len(s)
            /\ s[3 + DigitsAt(s, 3)] = 59
         THEN <<DecimalValue(SubSeq(s, 3, 2 + DigitsAt(s, 3)))>>
                \o DecodeEntities(SubSeq(s, 4 + DigitsAt(s, 3), Len(s)))
         ELSE <<Head(s)>> \o DecodeEntities(Tail(s))

\* anki.utils.strip_html
strip_html(s) == DecodeEntities(RemoveTags(s))

\* escapeText, lines 38-45: the two character replacements, then the tags
\* are stripped with "<br>" and "<br />" shielded by the placeholder
escapeText(text) ==
    LET replaced == [i \in 1..Len(text) |-> EscapeChar(text[i])]
        shielded == Replace(Replace(replaced, BR_SLASH, PLACEHOLDER), BR, PLACEHOLDER)
    IN  Replace(strip_html(shielded), PLACEHOLDER, BR)

\* the number of newline characters in s
Newlines(s) == Cardinality({i \in 1..Len(s) : s[i] = 10})

\* kakasiArgs -KH: a katakana letter U+30A1..U+30F3 becomes the hiragana
\* letter 96 code points below it; kana, Latin and symbols are left alone
KatakanaToHiragana(c) == IF c \in 12449..12531 THEN c - 96 ELSE c

\* KakasiController.reading: the text is escaped, sent through kakasi and
\* the answer line is returned
KakasiReading(text) ==
    [i \in 1..Len(escapeText(text)) |-> KatakanaToHiragana(escapeText(text)[i])]

-----------------------------------------------------------------------------
(* MecabController.reading, one node at a time.                            *)

\* re.match(r"(.+)\[(.*)\]", node): both groups are greedy, "." is any
\* character but "\n", and text after the last "]" is ignored.  The "[" is
\* the last one that has a "]" after it and a character before it.
OpenBrackets(node) ==
    {p \in 2..Len(node) :
        /\ node[p] = 91
        /\ \E q \in (p + 1)..Len(node) : node[q] = 93
        /\ \A i \in 1..(p - 1) : node[i] # 10}

CloseBrackets(node, p) ==
    {q \in (p + 1)..Len(node) :
        /\ node[q] = 93
        /\ \A i \in (p + 1)..(q - 1) : node[i] # 10}

SetMax(S) == CHOOSE x \in S : \A y \in S : y <= x

\* the match object: m.groups() is (kanji, reading)
Match(node) ==
    IF OpenBrackets(node) = {} \/ CloseBrackets(node, SetMax(OpenBrackets(node))) = {}
    THEN [ok |-> FALSE, kanji |-> <<>>, reading |-> <<>>]
    ELSE LET p == SetMax(OpenBrackets(node))
             q == SetMax(CloseBrackets(node, p))
         IN  [ok |-> TRUE,
              kanji |-> SubSeq(node, 1, p - 1),
              reading |-> SubSeq(node, p + 1, q - 1)]

\* the string literal of the numeral test
Numerals ==
    <<19968, 20108, 19977, 22235, 20116, 20845, 19971, 20843, 20061, 21313,
      65296, 65297, 65298, 65299, 65300, 65301, 65302, 65303, 65304, 65305>>

\* kanji in "..." : the substring test of str
IsNumber(kanji) == IsSubstring(kanji, Numerals)

RECURSIVE ScanRight(_, _, _, _)
\* for i in range(1, len(kanji)): if kanji[-i] != reading[-i]: break; placeR = i
ScanRight(kanji, reading, i, place) ==
    IF i >= Len(kanji) THEN [raised |-> FALSE, place |-> place]
    ELSE IF ~IndexInRange(reading, -i) THEN [raised |-> TRUE, place |-> place]
    ELSE IF At(kanji, -i) # At(reading, -i) THEN [raised |-> FALSE, place |-> place]
    ELSE ScanRight(kanji, reading, i + 1, i)

RECURSIVE ScanLeft(_, _, _, _)
\* for i in range(0, len(kanji) - 1): if kanji[i] != reading[i]: break; placeL = i + 1
ScanLeft(kanji, reading, i, place) ==
    IF i >= Len(kanji) - 1 THEN [raised |-> FALSE, place |-> place]
    ELSE IF ~IndexInRange(reading, i) THEN [raised |-> TRUE, place |-> place]
    ELSE IF At(kanji, i) # At(reading, i) THEN [raised |-> FALSE, place |-> place]
    ELSE ScanLeft(kanji, reading, i + 1, i + 1)

placeR(kanji, reading) == ScanRight(kanji, reading, 1, 0)
\* placeL, were the prefix scan of lines 157-160 left out
placeL_NoScan(kanji, reading) == [raised |-> FALSE, place |-> 0]
placeL(kanji, reading) == ScanLeft(kanji, reading, 0, 0)

\* an IndexError leaves the suffix scan or, if that one ends, the prefix scan
ScanRaises(kanji, reading) ==
    placeR(kanji, reading).raised \/ placeL(kanji, reading).raised

\* Annotate, were the common suffix left out of the two formats that end in it
Annotate_NoSuffix(kanji, reading) ==
    LET L == placeL(kanji, reading).place
        R == placeR(kanji, reading).place
    IN  IF L = 0
        THEN IF R = 0
             THEN SPACE \o kanji \o LBRACKET \o reading \o RBRACKET
             ELSE SPACE \o SliceTo(kanji, -R) \o LBRACKET \o SliceTo(reading, -R)
                    \o RBRACKET
        ELSE IF R = 0
             THEN SliceTo(reading, L) \o SPACE \o SliceFrom(kanji, L) \o LBRACKET
                    \o SliceFrom(reading, L) \o RBRACKET
             ELSE SliceTo(reading, L) \o SPACE \o Slice(kanji, L, -R) \o LBRACKET
                    \o Slice(reading, L, -R) \o RBRACKET

\* the four format strings of lines 161-184, reading being the hiragana one
Annotate(kanji, reading) ==
    LET L == placeL(kanji, reading).place
        R == placeR(kanji, reading).place
    IN  IF L = 0
        THEN IF R = 0
             THEN SPACE \o kanji \o LBRACKET \o reading \o RBRACKET
             ELSE SPACE \o SliceTo(kanji, -R) \o LBRACKET \o SliceTo(reading, -R)
                    \o RBRACKET \o SliceFrom(reading, -R)
        ELSE IF R = 0
             THEN SliceTo(reading, L) \o SPACE \o SliceFrom(kanji, L) \o LBRACKET
                    \o SliceFrom(reading, L) \o RBRACKET
             ELSE SliceTo(reading, L) \o SPACE \o Slice(kanji, L, -R) \o LBRACKET
                    \o Slice(reading, L, -R) \o RBRACKET \o SliceFrom(reading, -R)

\* IsAlnum, were only the digits accepted
IsAlnum_DigitsOnly(s) ==
    /\ s # <<>>
    /\ \A i \in 1..Len(s) : s[i] \in 48..57

\* re.match("^[A-Za-z0-9]+$", s)
IsAlnum(s) ==
    /\ s # <<>>
    /\ \A i \in 1..Len(s) : s[i] \in (65..90) \cup (97..122) \cup (48..57)

\* fin, were a space added after every segment but the last
fin_SpaceAlways(list) ==
    Concat([c \in 1..Len(list) |-> IF c < Len(list) THEN list[c] \o SPACE ELSE list[c]])

\* lines 185-189: a space is added to a segment when the next one is
\* Latin letters and digits only
fin(list) ==
    Concat([c \in 1..Len(list) |->
        IF c < Len(list) /\ IsAlnum(list[c + 1]) THEN list[c] \o SPACE ELSE list[c]])

\* "< br>" and "<br>"
LT_SP_BR_GT == <<60, 32, 98, 114, 62>>
LT_BR_GT == <<60, 98, 114, 62>>

\* Finish, were the tag left as the spacing pass wrote it
Finish_NoCollapse(list) == Strip(fin(list))
\* line 190: fin.strip().replace("< br>", "<br>")
Finish(list) == Replace(Strip(fin(list)), LT_SP_BR_GT, LT_BR_GT)

\* subprocess.Popen: a new process, distinct from every earlier one
Popen(proc) == proc + 1

\* ensureOpen, were a process started on every call
ensureOpen_Always(proc) == Popen(proc)
\* ensureOpen (lines 93-108 and 202-207), when the start succeeds: a process
\* is started only while the handle is None
ensureOpen(proc) == IF proc = 0 THEN Popen(proc) ELSE proc

\* what get_reading_for_text hands back: None, or a str
None == [none |-> TRUE, str |-> <<>>]
Str(s) == [none |-> FALSE, str |-> s]

-----------------------------------------------------------------------------
(* The lines the analyzer can answer with.                                 *)

Tok(k, r) == [kanji |-> k, reading |-> r]

\* U+8CB7 U+3063 U+305F "katta" (bought), reading in katakana
TokKatta == Tok(<<36023, 12387, 12383>>, <<12459, 12483, 12479>>)
\* U+5343 U+8449 "Chiba", reading U+30C1 U+30D0
TokChiba == Tok(<<21315, 33865>>, <<12481, 12496>>)
\* hiragana U+304B "ka" with its katakana reading U+30AB
TokKa == Tok(<<12363>>, <<12459>>)
\* katakana U+30BF "ta", reading identical
TokTa == Tok(<<12479>>, <<12479>>)
\* Latin "a" as a dictionary word whose reading is itself
TokLatinRead == Tok(<<97>>, <<97>>)
\* Latin "a" as an unknown word: no reading
TokLatinUnk == Tok(<<97>>, <<>>)
\* ASCII digit "2" read U+30CB "ni"
TokDigit == Tok(<<50>>, <<12491>>)
\* kanji numeral U+4E8C "two" read U+30CB "ni"
TokNi == Tok(<<20108>>, <<12491>>)
\* U+5341 U+4E5D "nineteen" read "juuku" in katakana
TokJuuku == Tok(<<21313, 20061>>, <<12472, 12517, 12454, 12463>>)
\* the ideographic space U+3000, which the dictionary reads as itself
TokWideSpace == Tok(<<12288>>, <<12288>>)
\* U+4E8C U+5343 U+4E09 U+767E U+516D U+5341 "2360" with its hiragana reading
TokNisen ==
    Tok(<<20108, 21315, 19977, 30334, 20845, 21313>>,
        <<12395, 12379, 12435, 12373, 12435, 12403, 12419, 12367, 12429, 12367,
          12376, 12421, 12358>>)

\* U+30B5 U+30DC U+308B "saboru" (to skip class): a katakana stem with a
\* hiragana ending, reading in katakana
TokSaboru == Tok(<<12469, 12508, 12427>>, <<12469, 12508, 12523>>)

\* the three unknown-word tokens a line-break tag "<br>" is cut into
TokLt == Tok(<<60>>, <<>>)
TokBr == Tok(<<98, 114>>, <<>>)
TokGt == Tok(<<62>>, <<>>)

\* tokens that are combined into lines of several nodes
SampleTokens ==
    {TokKatta, TokKa, TokTa, TokLatinRead, TokLatinUnk, TokDigit, TokNi,
     TokWideSpace}

\* tokens that are only analysed alone
SingleTokens == {TokChiba, TokJuuku, TokNisen, TokSaboru}

\* output that is no surface[reading] node: a bare word, and the empty piece
\* that two adjacent spaces leave
RawPieces == {<<36023>>, <<>>}

Strings(S, lo, hi) == UNION {[1..n -> S] : n \in lo..hi}

\* every surface over a kanji and a hiragana letter, every reading over that
\* hiragana letter and its katakana form
SysTokens ==
    {Tok(k, r) : k \in Strings({36023, 12363}, 1, MaxSurf),
                 r \in Strings({12363, 12459}, 0, MaxRead)}

\* the analyzer ends every node with a space (the eos format is "\n", which
\* readline().rstrip() removes)
JoinLine(pieces) == Concat([i \in 1..Len(pieces) |-> pieces[i] \o SPACE])

\* lines that do not come from the node format: output cut before the
\* closing space
RawLines == {NodeFormat(TokChiba), NodeFormat(TokKa) \o SPACE \o <<36023>>}

\* a line-break tag, alone or with one sample token before or after it, and
\* the tag cut short
BrLines ==
    {JoinLine(a \o <<NodeFormat(TokLt), NodeFormat(TokBr), NodeFormat(TokGt)>> \o b) :
        a, b \in Strings({NodeFormat(t) : t \in SampleTokens}, 0, 1)}
    \cup {JoinLine(<<NodeFormat(TokLt), NodeFormat(TokBr)>>)}

Lines ==
    {JoinLine(p) : p \in Strings({NodeFormat(t) : t \in SampleTokens} \cup RawPieces,
                                 0, MaxNodes)}
    \cup {JoinLine(<<NodeFormat(t)>>) : t \in SysTokens \cup SingleTokens}
    \cup RawLines
    \cup BrLines

-----------------------------------------------------------------------------
(* The call of MecabController.reading.                                    *)

\* the loop variable of line 118
node == nodes[nodeIdx]
m == Match(node)
kanji == m.kanji
reading == m.reading

\* An attribute of a Python object: reading one that was never assigned raises
\* AttributeError, so "never assigned" is kept apart from "assigned None".
\* The value is <<>> for None and <<v>> for the value v.
Unset == [set |-> FALSE, val |-> <<>>]
Attr(v) == [set |-> TRUE, val |-> v]

Init ==
    /\ pc = "idle"
    /\ sent = <<>>
    /\ expr = <<>>
    /\ nodes = <<>>
    /\ nodeIdx = 1
    /\ out = <<>>
    /\ ret = <<>>
    /\ exc = "none"
    /\ stderr = <<>>
    /\ kakasiLog = <<>>
    /\ mecabProc = 0
    /\ kakasiProc = 0
    /\ mecabPipe = 0
    /\ kakasiPipe = 0
    /\ mecab = TRUE
    /\ hpc = "idle"
    /\ handler = "none"
    /\ src_text = <<>>
    /\ result = None
    /\ noteSrc = <<>>
    /\ noteEng = <<>>
    /\ info = <<>>
    /\ hexc = "none"
    /\ noteAtClick = <<>>
    /\ everRaised = FALSE
    \* VocabWizard.__init__ and setup_ui (wizard.py:105-118, 225-240)
    /\ currentIndex = 0
    /\ back_button = [enabled |-> FALSE]
    /\ next_button = [enabled |-> TRUE, visible |-> TRUE]
    /\ finish_button = [visible |-> FALSE]
    /\ prompt_image_data = <<>>
    /\ selected_mnemonic_index = <<>>
    /\ image_thumbnails = <<>>
    /\ mnemonic_list = <<>>
    /\ mnemonic_editors = Unset
    /\ queries = {}
    /\ searchNo = 0
    /\ genNo = 0
    /\ ran = {}
    /\ dialog = [state |-> "open", mnemonic |-> "none", image |-> "none"]
    \* MnemonicPage.__init__ (mnemonic_page.py:10-32)
    /\ mnemonicPage =
           [selected_mnemonic_index |-> Unset, mnemonic_editors |-> Unset,
            mnemonic_images |-> <<>>, mnemonic_list |-> <<>>, genNo |-> 0]
    \* PromptImagePage.__init__ (prompt_image_page.py:46-52)
    /\ promptImagePage =
           [image_thumbnails |-> <<>>, selected_image_data |-> Attr(<<>>),
            prompt_image_data |-> Unset, searchNo |-> 0]
    /\ pageQueries = {}

\* lines 111-117: the analyzer is started if it is not running, the text is
\* sent and one line, drawn from LineSet, is read back
ReadLine(text, LineSet) ==
    /\ pc = "idle"
    /\ mecabProc' = ensureOpen(mecabProc)
    /\ sent' = escapeText(text)
    /\ mecabPipe + Newlines(escapeText(text)) <= MaxBacklog
    /\ mecabPipe' = mecabPipe + Newlines(escapeText(text))
    /\ \E line \in LineSet : expr' = line /\ nodes' = Split(line, 32)
    /\ pc' = "loop"
    /\ UNCHANGED <<nodeIdx, out, ret, exc, stderr, kakasiLog, kakasiProc, kakasiPipe>>

\* the text of a direct call: U+5343 U+8449, the last of the module's tests
CallTexts == {<<21315, 33865>>}

\* a direct call mecab.reading(expr), as the module's own tests make
Call ==
    /\ hpc = "idle"
    /\ \E text \in CallTexts : ReadLine(text, Lines)
    /\ UNCHANGED editorVars
    /\ UNCHANGED dialogVars

\* a node is in hand: the for loop has not run out
AtNode == pc = "loop" /\ nodeIdx <= Len(nodes)

\* line 118: the for loop has consumed every node
LoopEnd ==
    /\ pc = "loop"
    /\ nodeIdx > Len(nodes)
    /\ pc' = "join"
    /\ UNCHANGED <<sent, expr, nodes, nodeIdx, out, ret, exc, stderr, kakasiLog>>
    /\ UNCHANGED <<procVars, editorVars>>
    /\ UNCHANGED dialogVars

\* lines 119-120: an empty node ends the loop
NodeEmpty ==
    /\ AtNode
    /\ node = <<>>
    /\ pc' = "join"
    /\ UNCHANGED <<sent, expr, nodes, nodeIdx, out, ret, exc, stderr, kakasiLog>>
    /\ UNCHANGED <<procVars, editorVars>>
    /\ UNCHANGED dialogVars

\* NodeUnexpected, were the node logged, emitted raw and the loop continued
NodeUnexpected_Skip ==
    /\ AtNode
    /\ node # <<>>
    /\ ~m.ok
    /\ stderr' = Append(stderr, expr)
    /\ out' = Append(out, node)
    /\ nodeIdx' = nodeIdx + 1
    /\ UNCHANGED <<pc, sent, expr, nodes, ret, exc, kakasiLog>>
    /\ UNCHANGED <<procVars, editorVars>>
    /\ UNCHANGED dialogVars

\* lines 121-128: a node without the surface[reading] shape
NodeUnexpected ==
    /\ AtNode
    /\ node # <<>>
    /\ ~m.ok
    /\ stderr' = Append(stderr, expr)
    /\ ret' = <<>>
    /\ pc' = "done"
    /\ UNCHANGED <<sent, expr, nodes, nodeIdx, out, exc, kakasiLog>>
    /\ UNCHANGED <<procVars, editorVars>>
    /\ UNCHANGED dialogVars

\* Emit, were the segment stripped before it is appended
Emit_Stripped(s) ==
    /\ out' = Append(out, Strip(s))
    /\ nodeIdx' = nodeIdx + 1
    /\ UNCHANGED <<pc, sent, expr, nodes, ret, exc, stderr, mecabProc, mecabPipe, editorVars>>

\* out.append(s); continue
Emit(s) ==
    /\ out' = Append(out, s)
    /\ nodeIdx' = nodeIdx + 1
    /\ UNCHANGED <<pc, sent, expr, nodes, ret, exc, stderr, mecabProc, mecabPipe, editorVars>>

\* the call kakasi.reading(reading) made for the node at hand
KakasiCall == [node |-> nodeIdx, text |-> reading]

\* lines 209-214: kakasi.reading starts kakasi if it is not running
KakasiUsed ==
    /\ kakasiProc' = ensureOpen(kakasiProc)
    /\ kakasiPipe' = kakasiPipe
          + (Len(kakasiLog') - Len(kakasiLog)) * Newlines(escapeText(reading))

\* NodePlain, were the reading normalized before the test of line 132
NodePlain_ViaKakasi ==
    /\ AtNode
    /\ node # <<>>
    /\ m.ok
    /\ kanji = reading \/ reading = <<>>
    /\ kakasiLog' = Append(kakasiLog, KakasiCall)
    /\ KakasiUsed
    /\ Emit(kanji)
    /\ UNCHANGED dialogVars

\* lines 130-134: hiragana, punctuation, not Japanese, or lacking a reading
NodePlain ==
    /\ AtNode
    /\ node # <<>>
    /\ m.ok
    /\ kanji = reading \/ reading = <<>>
    /\ Emit(kanji)
    /\ UNCHANGED <<kakasiLog, kakasiProc, kakasiPipe>>
    /\ UNCHANGED dialogVars

\* the tests of lines 132 and 136 have both failed
NeedsReading ==
    /\ AtNode
    /\ node # <<>>
    /\ m.ok
    /\ ~(kanji = reading \/ reading = <<>>)
    /\ kanji # KakasiReading(reading)

\* lines 135-144: the surface is the hiragana form of the reading.  (The
\* test of line 142 repeats the one of line 136 on the same two strings.)
NodeKana ==
    /\ AtNode
    /\ node # <<>>
    /\ m.ok
    /\ ~(kanji = reading \/ reading = <<>>)
    /\ kanji = KakasiReading(reading)
    /\ kakasiLog' = Append(kakasiLog, KakasiCall)
    /\ KakasiUsed
    /\ Emit(kanji)
    /\ UNCHANGED dialogVars

\* lines 145-148: don't add readings of numbers
NodeNumber ==
    /\ NeedsReading
    /\ IsNumber(kanji)
    /\ kakasiLog' = kakasiLog \o <<KakasiCall, KakasiCall>>
    /\ KakasiUsed
    /\ Emit(kanji)
    /\ UNCHANGED dialogVars

\* NodeAnnotate, were a reading shorter than the surface passed through
NodeAnnotate_ShortPlain ==
    /\ NeedsReading
    /\ ~IsNumber(kanji)
    /\ ~ScanRaises(kanji, KakasiReading(reading))
    /\ kakasiLog' = kakasiLog \o <<KakasiCall, KakasiCall>>
    /\ KakasiUsed
    /\ Emit(IF Len(KakasiReading(reading)) < Len(kanji)
            THEN kanji
            ELSE Annotate(kanji, KakasiReading(reading)))
    /\ UNCHANGED dialogVars

\* lines 149-184: the matching ends are stripped and the rest is bracketed
NodeAnnotate ==
    /\ NeedsReading
    /\ ~IsNumber(kanji)
    /\ ~ScanRaises(kanji, KakasiReading(reading))
    /\ kakasiLog' = kakasiLog \o <<KakasiCall, KakasiCall>>
    /\ KakasiUsed
    /\ Emit(Annotate(kanji, KakasiReading(reading)))
    /\ UNCHANGED dialogVars

\* lines 153-160: reading[-i] or reading[i] is out of range
NodeIndexError ==
    /\ NeedsReading
    /\ ~IsNumber(kanji)
    /\ ScanRaises(kanji, KakasiReading(reading))
    /\ kakasiLog' = kakasiLog \o <<KakasiCall, KakasiCall>>
    /\ KakasiUsed
    /\ exc' = "IndexError"
    /\ pc' = "raised"
    /\ UNCHANGED <<sent, expr, nodes, nodeIdx, out, ret, stderr, mecabProc, mecabPipe, editorVars>>
    /\ UNCHANGED dialogVars

\* lines 185-190: the segments are joined and the string is returned
Join ==
    /\ pc = "join"
    /\ ret' = Finish(out)
    /\ pc' = "done"
    /\ UNCHANGED <<sent, expr, nodes, nodeIdx, out, exc, stderr, kakasiLog>>
    /\ UNCHANGED <<procVars, editorVars>>
    /\ UNCHANGED dialogVars

\* the frame of a call that is over is gone
FrameGone ==
    /\ pc' = "idle"
    /\ sent' = <<>>
    /\ expr' = <<>>
    /\ nodes' = <<>>
    /\ nodeIdx' = 1
    /\ out' = <<>>
    /\ ret' = <<>>
    /\ exc' = "none"
    /\ stderr' = <<>>
    /\ kakasiLog' = <<>>

\* the direct call is over and the next call can start
Return ==
    /\ hpc = "idle"
    /\ pc \in {"done", "raised"}
    /\ FrameGone
    /\ UNCHANGED <<procVars, editorVars>>
    /\ UNCHANGED dialogVars

Next ==
    \/ Call
    \/ LoopEnd
    \/ NodeEmpty
    \/ NodeUnexpected
    \/ NodePlain
    \/ NodeKana
    \/ NodeNumber
    \/ NodeAnnotate
    \/ NodeIndexError
    \/ Join
    \/ Return

Spec == Init /\ [][Next]_vars

-----------------------------------------------------------------------------
(* The editor buttons: on_generate_reading_button of reading.py ("kaito")  *)
(* and of quick_actions.py ("reading"), and get_reading_for_text.          *)

Handlers == {"kaito", "reading"}

\* U+5343 U+8449 with the character reference "&#10;" between the two
TextWithEntity == <<21315, 38, 35, 49, 48, 59, 33865>>
\* U+5343, a newline, and U+8449 in bold: "<b>", "</b>"
TextWithMarkup == <<21315, 10, 60, 98, 62, 33865, 60, 47, 98, 62>>

\* what the user has in the source field: nothing, U+5343 U+8449, or that
\* word in the two HTML forms.  None holds a media reference, so
\* mw.col.media.strip returns it as it is.
SrcTexts == {<<>>, <<21315, 33865>>, TextWithEntity, TextWithMarkup}

\* what the analyzer answers in an editor session: nothing at all, one
\* annotated token with and without the closing space, one unknown Latin
\* word, a bare word without brackets, a token whose reading is too short,
\* and two lines of two tokens
SessionLines ==
    {<<>>,
     JoinLine(<<NodeFormat(TokChiba)>>),
     NodeFormat(TokChiba),
     JoinLine(<<NodeFormat(TokKa), NodeFormat(TokNi)>>),
     JoinLine(<<NodeFormat(TokLatinUnk)>>),
     JoinLine(<<<<36023>>>>),
     JoinLine(<<NodeFormat(Tok(<<12363, 12363, 12363>>, <<12363>>))>>),
     JoinLine(<<NodeFormat(TokKatta), NodeFormat(TokLatinUnk)>>)}

\* the checks that end a click before the source text is read: the two
\* configuration keys (quick_actions.py:20-25 only), the note type, the two
\* fields
Rejections(h) ==
    (IF h = "reading"
     THEN {"Please configure the source field in the addon settings.",
           "Please configure the English field in the addon settings."}
     ELSE {})
    \cup {"This is not a Japanese note type.",
          "This note type is missing the required field: srcField",
          "This note type is missing the required field: englishField"}

\* what the user leaves in the dialog's reading box, given the reading shown
DialogReadings(r) == {r, <<12363>>}
\* what the user leaves in the dialog's definition box
DialogDefinitions == {<<>>, <<100>>}
\* what get_english_meanings returns: "" or the joined glosses
Meanings == {<<>>, <<100>>}

\* the user types in the source field of the note
EditField ==
    /\ hpc = "idle"
    /\ pc = "idle"
    /\ \E t \in SrcTexts : noteSrc' = t
    /\ noteSrc' # noteSrc
    /\ UNCHANGED <<readingVars, procVars, mecab, hpc, handler, src_text, result,
                   noteEng, info, hexc, noteAtClick, everRaised>>
    /\ UNCHANGED dialogVars

\* reading.py:336-348, quick_actions.py:19-42: a check fails, the message is
\* shown and the handler returns
ClickRejected ==
    /\ hpc = "idle"
    /\ pc = "idle"
    /\ \E h \in Handlers : \E msg \in Rejections(h) :
          /\ handler' = h
          /\ info' = <<msg>>
    /\ hpc' = "returned"
    /\ noteAtClick' = <<noteSrc, noteEng>>
    /\ UNCHANGED <<readingVars, procVars, mecab, src_text, result, noteSrc,
                   noteEng, hexc, everRaised>>
    /\ UNCHANGED dialogVars

\* reading.py:351-354, quick_actions.py:45-48: the source field is empty
ClickEmptySource ==
    /\ hpc = "idle"
    /\ pc = "idle"
    /\ noteSrc = <<>>
    /\ \E h \in Handlers : handler' = h
    /\ info' = <<"The field 'srcField' is empty.">>
    /\ hpc' = "returned"
    /\ noteAtClick' = <<noteSrc, noteEng>>
    /\ UNCHANGED <<readingVars, procVars, mecab, src_text, result, noteSrc,
                   noteEng, hexc, everRaised>>
    /\ UNCHANGED dialogVars

\* reading.py:351-357, quick_actions.py:45-50: the handler has the source
\* text and calls get_reading_for_text
ClickStart ==
    /\ hpc = "idle"
    /\ pc = "idle"
    /\ noteSrc # <<>>
    /\ \E h \in Handlers : handler' = h
    /\ src_text' = noteSrc
    /\ hpc' = "get"
    /\ noteAtClick' = <<noteSrc, noteEng>>
    /\ UNCHANGED <<readingVars, procVars, mecab, result, noteSrc, noteEng, info,
                   hexc, everRaised>>
    /\ UNCHANGED dialogVars

\* GetReadingNone, were the global not tested: the analyzer is asked again
GetReadingNone_Retry ==
    /\ hpc = "get"
    /\ ~mecab \/ src_text = <<>>
    /\ ReadLine(src_text, SessionLines)
    /\ hpc' = "reading"
    /\ UNCHANGED <<mecab, handler, src_text, result, noteSrc, noteEng, info,
                   hexc, noteAtClick, everRaised>>
    /\ UNCHANGED dialogVars

\* lines 319-323: the global is None, or the text is empty
GetReadingNone ==
    /\ hpc = "get"
    /\ ~mecab \/ src_text = <<>>
    /\ result' = None
    /\ hpc' = "got"
    /\ UNCHANGED <<readingVars, procVars, mecab, handler, src_text, noteSrc,
                   noteEng, info, hexc, noteAtClick, everRaised>>
    /\ UNCHANGED dialogVars

\* lines 326-327: mecab.reading(text) is entered and a line is read back
GetReadingCall ==
    /\ hpc = "get"
    /\ mecab
    /\ src_text # <<>>
    /\ ReadLine(src_text, SessionLines)
    /\ hpc' = "reading"
    /\ UNCHANGED <<mecab, handler, src_text, result, noteSrc, noteEng, info,
                   hexc, noteAtClick, everRaised>>
    /\ UNCHANGED dialogVars

\* lines 111-116 fail: the analyzer cannot be started (lines 104-107, the
\* handle stays None), or it is started and has ended by the time the text
\* is written to its pipe
GetReadingFails ==
    /\ hpc = "get"
    /\ mecab
    /\ src_text # <<>>
    /\ pc = "idle"
    /\ \/ mecabProc = 0 /\ exc' = "Exception" /\ UNCHANGED <<mecabProc, mecabPipe>>
       \/ exc' = "BrokenPipeError" /\ mecabProc' = ensureOpen(mecabProc)
            /\ UNCHANGED mecabPipe
    /\ pc' = "raised"
    /\ hpc' = "reading"
    /\ UNCHANGED <<sent, expr, nodes, nodeIdx, out, ret, stderr, kakasiLog, kakasiProc, kakasiPipe,
                   mecab, handler, src_text, result, noteSrc, noteEng, info,
                   hexc, noteAtClick, everRaised>>
    /\ UNCHANGED dialogVars

\* lines 209-214 fail at a node that needs kakasi: kakasi cannot be started
\* (lines 222-223), or it has ended by the time the reading is written to it
NodeKakasiFails ==
    /\ AtNode
    /\ node # <<>>
    /\ m.ok
    /\ ~(kanji = reading \/ reading = <<>>)
    /\ \/ kakasiProc = 0 /\ exc' = "Exception" /\ UNCHANGED <<kakasiProc, kakasiPipe>>
       \/ exc' = "BrokenPipeError" /\ kakasiProc' = ensureOpen(kakasiProc)
            /\ UNCHANGED kakasiPipe
    /\ pc' = "raised"
    /\ UNCHANGED <<sent, expr, nodes, nodeIdx, out, ret, stderr, kakasiLog, mecabProc, mecabPipe,
                   editorVars>>
    /\ UNCHANGED dialogVars

\* lines 326-327: reading() has returned and its value is handed on
GetReadingReturn ==
    /\ hpc = "reading"
    /\ pc = "done"
    /\ result' = Str(ret)
    /\ hpc' = "got"
    /\ FrameGone
    /\ UNCHANGED <<procVars, mecab, handler, src_text, noteSrc, noteEng, info,
                   hexc, noteAtClick, everRaised>>
    /\ UNCHANGED dialogVars

\* GetReadingRaise, were the global kept
GetReadingRaise_KeepGlobal ==
    /\ hpc = "reading"
    /\ pc = "raised"
    /\ everRaised' = TRUE
    /\ hexc' = exc
    /\ hpc' = "raised"
    /\ FrameGone
    /\ UNCHANGED <<procVars, mecab, handler, src_text, result, noteSrc, noteEng,
                   info, noteAtClick>>
    /\ UNCHANGED dialogVars

\* lines 328-330: reading() has raised; the global is cleared and the
\* exception is raised again, through the handler, which catches nothing
GetReadingRaise ==
    /\ hpc = "reading"
    /\ pc = "raised"
    /\ mecab' = FALSE
    /\ everRaised' = TRUE
    /\ hexc' = exc
    /\ hpc' = "raised"
    /\ FrameGone
    /\ UNCHANGED <<procVars, handler, src_text, result, noteSrc, noteEng, info,
                   noteAtClick>>
    /\ UNCHANGED dialogVars

\* `not reading`: None or the empty string
NoReading == result.none \/ result.str = <<>>

\* reading.py:358: "Got reading: " + None raises TypeError
KaitoPrintRaises ==
    /\ hpc = "got"
    /\ handler = "kaito"
    /\ result.none
    /\ hexc' = "TypeError"
    /\ hpc' = "raised"
    /\ UNCHANGED <<readingVars, procVars, mecab, handler, src_text, result,
                   noteSrc, noteEng, info, noteAtClick, everRaised>>
    /\ UNCHANGED dialogVars

\* reading.py:359-361, quick_actions.py:51-53: no reading, the message is
\* shown and the handler returns
HandlerNoReading ==
    /\ hpc = "got"
    /\ NoReading
    /\ ~(handler = "kaito" /\ result.none)
    /\ info' = <<IF handler = "kaito"
                 THEN "Could not generate reading for text in 'srcField'."
                 ELSE "Could not generate reading, please add your own.">>
    /\ hpc' = "returned"
    /\ UNCHANGED <<readingVars, procVars, mecab, handler, src_text, result,
                   noteSrc, noteEng, hexc, noteAtClick, everRaised>>
    /\ UNCHANGED dialogVars

\* reading.py:363-375: the dialog is shown; on OK both fields are written
KaitoDialog ==
    /\ hpc = "got"
    /\ handler = "kaito"
    /\ ~NoReading
    /\ \/ /\ \E r \in DialogReadings(result.str) : noteSrc' = r
          /\ \E d \in DialogDefinitions : noteEng' = d
          /\ info' = <<"Reading added to field 'srcField'.">>
       \/ UNCHANGED <<noteSrc, noteEng, info>>
    /\ hpc' = "returned"
    /\ UNCHANGED <<readingVars, procVars, mecab, handler, src_text, result,
                   hexc, noteAtClick, everRaised>>
    /\ UNCHANGED dialogVars

\* quick_actions.py:54-62: the reading is written, then the meanings are
\* looked up and written if there are any
QuickWrite ==
    /\ hpc = "got"
    /\ handler = "reading"
    /\ ~NoReading
    /\ noteSrc' = result.str
    /\ \E english_text \in Meanings :
          IF english_text = <<>>
          THEN /\ info' = <<"Could not generate English meaning, please add your own.">>
               /\ UNCHANGED noteEng
          ELSE /\ noteEng' = english_text
               /\ UNCHANGED info
    /\ hpc' = "returned"
    /\ UNCHANGED <<readingVars, procVars, mecab, handler, src_text, result,
                   hexc, noteAtClick, everRaised>>
    /\ UNCHANGED dialogVars

\* the handler is over, by return or by exception; its messages are closed
HandlerExit ==
    /\ hpc \in {"returned", "raised"}
    /\ hpc' = "idle"
    /\ handler' = "none"
    /\ src_text' = <<>>
    /\ result' = None
    /\ info' = <<>>
    /\ hexc' = "none"
    /\ noteAtClick' = <<>>
    /\ UNCHANGED <<readingVars, procVars, mecab, noteSrc, noteEng, everRaised>>
    /\ UNCHANGED dialogVars

NextSession ==
    \/ EditField
    \/ ClickRejected
    \/ ClickEmptySource
    \/ ClickStart
    \/ GetReadingNone
    \/ GetReadingCall
    \/ GetReadingFails
    \/ LoopEnd
    \/ NodeEmpty
    \/ NodeUnexpected
    \/ NodePlain
    \/ NodeKana
    \/ NodeNumber
    \/ NodeAnnotate
    \/ NodeIndexError
    \/ NodeKakasiFails
    \/ Join
    \/ GetReadingReturn
    \/ GetReadingRaise
    \/ KaitoPrintRaises
    \/ HandlerNoReading
    \/ KaitoDialog
    \/ QuickWrite
    \/ HandlerExit

SpecSession == Init /\ [][NextSession]_vars

-----------------------------------------------------------------------------
(* Vocabulary of the properties.                                           *)

\* the token that node i of the line parses to
TokenAt(i) == Match(nodes[i])

\* the hiragana-normalized reading of node i
HiraganaAt(i) == KakasiReading(TokenAt(i).reading)

\* out[i] is the segment emitted for node i: every node that does not end
\* the loop appends exactly one segment
Emitted == 1..Len(out)

\* the line is a token list: every node has the surface[reading] shape, and
\* the only empty piece is the one after the closing space
TokenList ==
    /\ \A i \in 1..Len(nodes) : nodes[i] = <<>> => i = Len(nodes)
    /\ \A i \in 1..Len(nodes) : nodes[i] # <<>> => TokenAt(i).ok

\* the number of tokens of a token list
NumTokens == IF nodes # <<>> /\ nodes[Len(nodes)] = <<>> THEN Len(nodes) - 1 ELSE Len(nodes)

\* the surfaces of a token list, in order
Surfaces == [i \in 1..NumTokens |-> TokenAt(i).kanji]

\* a node the loop reaches (no empty node before it) that lacks the shape
MalformedAt(i) ==
    /\ nodes[i] # <<>>
    /\ ~TokenAt(i).ok
    /\ \A j \in 1..(i - 1) : nodes[j] # <<>>

Chars(s) == {s[i] : i \in 1..Len(s)}

-----------------------------------------------------------------------------
(* C1.  Malformed analyzer output.                                         *)

\* C1 as stated: when a node lacks the surface[reading] shape the anomaly is
\* logged, the raw text of that node is emitted and the segments of the
\* other nodes are kept in the returned string.
C1_MalformedNodeIsLocal ==
    (pc = "done" /\ stderr # <<>>) =>
        /\ IsSubstring(node, ret)
        /\ \A i \in Emitted : IsSubstring(Strip(out[i]), ret)

\* C1 amended: once the loop reaches a node that lacks the shape, the call
\* logs the line once and returns the empty string; the segments already
\* emitted for well-formed nodes are discarded.
C1_MalformedNodeReturnsEmpty ==
    (pc = "done" /\ \E i \in 1..Len(nodes) : MalformedAt(i)) =>
        /\ ret = <<>>
        /\ stderr = <<expr>>

\* a call that had emitted a segment before it met the malformed node
C1_Witness == pc = "done" /\ stderr # <<>> /\ out # <<>>

-----------------------------------------------------------------------------
(* C2.  No exception leaves the alignment.                                 *)

\* C2 as stated: whatever the surfaces and readings are, the call ends by
\* returning a string and no exception propagates out of it.
C2_NoExceptionPropagates == pc # "raised" /\ exc = "none"

-----------------------------------------------------------------------------
(* C3.  Reading shorter than the surface.                                  *)

\* node i has a non-empty hiragana reading that differs from the surface and
\* is shorter than it
ShortReadingAt(i) ==
    /\ TokenAt(i).ok
    /\ HiraganaAt(i) # <<>>
    /\ HiraganaAt(i) # TokenAt(i).kanji
    /\ Len(HiraganaAt(i)) < Len(TokenAt(i).kanji)

-----------------------------------------------------------------------------
(* C4.  No surface character is lost.                                      *)

\* C4 as stated: every character of every surface of a token list occurs in
\* the returned string.
C4_EverySurfaceCharReturned ==
    (pc = "done" /\ TokenList) =>
        \A i \in 1..Len(Surfaces) : Chars(Surfaces[i]) \subseteq Chars(ret)

\* C4 amended: every character of every surface that is not whitespace
\* occurs in the returned string (whitespace at the ends is stripped).
C4_EveryInkCharReturned ==
    (pc = "done" /\ TokenList) =>
        \A i \in 1..Len(Surfaces) :
            {c \in Chars(Surfaces[i]) : ~IsSpace(c)} \subseteq Chars(ret)

\* a token list of several tokens, one of them annotated with trimmed ends
C4_Witness ==
    /\ pc = "done"
    /\ TokenList
    /\ Len(out) >= 2
    /\ \E i \in Emitted :
         /\ out[i] # TokenAt(i).kanji
         /\ placeR(TokenAt(i).kanji, HiraganaAt(i)).place > 0

-----------------------------------------------------------------------------
(* C5.  No empty bracket pair.                                             *)

\* C5 as stated: the returned string never contains "[]".
C5_NoEmptyBracketPair == pc = "done" => ~IsSubstring(LBRACKET \o RBRACKET, ret)

-----------------------------------------------------------------------------
(* C6.  The bracket follows a non-empty kanji core.                        *)

\* C6 as stated: in every annotated segment the trimming leaves at least one
\* surface character, so the "[" is never preceded by the space that the
\* format puts before the kanji core.
C6_KanjiCoreNonEmpty ==
    \A i \in Emitted :
        out[i] # TokenAt(i).kanji =>
            /\ placeL(TokenAt(i).kanji, HiraganaAt(i)).place
                 + placeR(TokenAt(i).kanji, HiraganaAt(i)).place < Len(TokenAt(i).kanji)
            /\ ~IsSubstring(SPACE \o LBRACKET, out[i])

-----------------------------------------------------------------------------
(* C7, C8.  Numerals.                                                      *)

\* ASCII digits, full-width digits and the kanji numerals one to ten
NumeralChars == (48..57) \cup (65296..65305) \cup Chars(SubSeq(Numerals, 1, 10))

\* C7 as stated: a token whose surface is made of numeral characters only is
\* emitted as its bare surface.
C7_NumeralsAreBare ==
    \A i \in Emitted :
        (TokenAt(i).ok /\ Chars(TokenAt(i).kanji) \subseteq NumeralChars) =>
            out[i] = TokenAt(i).kanji

\* C8 as stated: the single token U+4E8C U+5343 U+4E09 U+767E U+516D U+5341
\* with its reading is returned as the surface alone.
C8_NisenIsBare ==
    (pc = "done" /\ expr = JoinLine(<<NodeFormat(TokNisen)>>)) => ret = TokNisen.kanji

-----------------------------------------------------------------------------
(* C9.  Lines whose tokens all have surface == reading.                    *)

\* every token of the line has surface == reading
AllSame == TokenList /\ \A i \in 1..Len(Surfaces) : TokenAt(i).reading = TokenAt(i).kanji

\* C9 as stated: the call returns exactly the concatenation of the surfaces.
C9_SameReadingIsIdentity == (pc = "done" /\ AllSame) => ret = Concat(Surfaces)

\* the surfaces, each one that is ASCII letters and digits only and not the
\* first preceded by a space
SpacedSurfaces ==
    [i \in 1..Len(Surfaces) |->
        IF i > 1 /\ IsAlnum(Surfaces[i]) THEN SPACE \o Surfaces[i] ELSE Surfaces[i]]

\* C9 amended: the call returns the concatenation of the surfaces with one
\* space before every token after the first that is ASCII letters and digits
\* only, the whitespace at both ends stripped and "< br>" written "<br>";
\* without such a token and without whitespace at the ends it is the
\* concatenation itself.
C9_SameReadingUpToSpacing ==
    (pc = "done" /\ AllSame) =>
        /\ ret = Replace(Strip(Concat(SpacedSurfaces)), LT_SP_BR_GT, LT_BR_GT)
        /\ ((\A i \in 2..Len(Surfaces) : ~IsAlnum(Surfaces[i]))
              /\ Strip(Concat(Surfaces)) = Concat(Surfaces)) => ret = Concat(Surfaces)

\* several kana tokens returned as their concatenation
C9_Witness ==
    /\ pc = "done"
    /\ AllSame
    /\ Len(Surfaces) >= 2
    /\ ret = Concat(Surfaces)

-----------------------------------------------------------------------------
(* C10.  Tokens without a reading of their own.                            *)

\* C10: a token whose reading is empty or equal to its surface is emitted as
\* the bare surface, and kakasi.reading is not called for it.
C10_PlainTokenIsBare ==
    \A i \in Emitted :
        (TokenAt(i).ok /\ (TokenAt(i).reading = <<>> \/ TokenAt(i).reading = TokenAt(i).kanji)) =>
            /\ out[i] = TokenAt(i).kanji
            /\ \A n \in 1..Len(kakasiLog) : kakasiLog[n].node # i

\* a line where one token went through kakasi and a later one did not
C10_Witness ==
    /\ kakasiLog # <<>>
    /\ \E i \in Emitted :
         /\ TokenAt(i).reading = <<>>
         /\ \E n \in 1..Len(kakasiLog) : kakasiLog[n].node < i

-----------------------------------------------------------------------------
\* C11: every token whose surface and reading have the same
\* hiragana-normalized form is emitted as its bare surface, without a bracket
\* annotation.
C11_SameKanaIsBare ==
    \A i \in Emitted :
        KakasiReading(TokenAt(i).kanji) = HiraganaAt(i) => out[i] = TokenAt(i).kanji
-----------------------------------------------------------------------------
(* C12 - C15.  The four shapes of an annotated token.                      *)

\* the longest common suffix of surface and reading, at most len(surface) - 1
suffixLen(k, r) ==
    SetMax({n \in 0..Max(0, Min(Len(k) - 1, Len(r))) :
               \A j \in 1..n : k[Len(k) - j + 1] = r[Len(r) - j + 1]})

\* the longest common prefix of surface and reading, at most len(surface) - 1
prefixLen(k, r) ==
    SetMax({n \in 0..Max(0, Min(Len(k) - 1, Len(r))) : \A j \in 1..n : k[j] = r[j]})

\* a token that is not passed through: it has a reading, surface and reading
\* do not denote the same kana text, and it is no numeral
NonPassthrough(t) ==
    /\ t.ok
    /\ t.reading # <<>>
    /\ t.kanji # t.reading
    /\ KakasiReading(t.kanji) # KakasiReading(t.reading)
    /\ ~(Chars(t.kanji) \subseteq NumeralChars)

\* a call on a line of one token has ended, by return or by exception
SingleTokenCallOver ==
    /\ pc \in {"done", "raised"}
    /\ TokenList
    /\ NumTokens = 1
    /\ NonPassthrough(TokenAt(1))

\* the first n and the last n characters of s, and s without them
First(s, n) == SubSeq(s, 1, n)
Last(s, n) == SubSeq(s, Len(s) - n + 1, Len(s))
DropFirst(s, n) == SubSeq(s, n + 1, Len(s))
DropLast(s, n) == SubSeq(s, 1, Len(s) - n)

\* C12: for a single non-passthrough token whose surface and hiragana reading
\* share a common suffix of length suffixLen > 0 and no common prefix, the
\* call returns kanjiPart[readingPart]suffix, the two parts being surface and
\* reading without their last suffixLen characters.
C12_SuffixTrim ==
    LET k == TokenAt(1).kanji
        r == HiraganaAt(1)
        n == suffixLen(k, r)
    IN  (SingleTokenCallOver /\ n > 0 /\ prefixLen(k, r) = 0) =>
            /\ pc = "done"
            /\ ret = DropLast(k, n) \o LBRACKET \o DropLast(r, n) \o RBRACKET
                        \o Last(k, n)

\* the case of C13: a shared prefix and no shared suffix
C13_Case ==
    /\ SingleTokenCallOver
    /\ prefixLen(TokenAt(1).kanji, HiraganaAt(1)) > 0
    /\ suffixLen(TokenAt(1).kanji, HiraganaAt(1)) = 0

\* C13 as stated: for a single non-passthrough token with a common prefix of
\* length prefixLen > 0 and no common suffix, the call returns the prefix
\* directly followed by core[coreReading].
C13_PrefixTrimAdjacent ==
    LET k == TokenAt(1).kanji
        r == HiraganaAt(1)
        n == prefixLen(k, r)
    IN  C13_Case =>
            /\ pc = "done"
            /\ ret = First(k, n) \o DropFirst(k, n) \o LBRACKET \o DropFirst(r, n)
                        \o RBRACKET

\* C13 amended: the call returns prefix, one space, core[coreReading]; it
\* ends in IndexError instead exactly when the whole reading is the shared
\* prefix and the surface is at least two characters longer.
C13_PrefixTrimSpaced ==
    LET k == TokenAt(1).kanji
        r == HiraganaAt(1)
        n == prefixLen(k, r)
    IN  C13_Case =>
            IF n = Len(r) /\ Len(r) < Len(k) - 1
            THEN pc = "raised" /\ exc = "IndexError"
            ELSE /\ pc = "done"
                 /\ ret = First(k, n) \o SPACE \o DropFirst(k, n) \o LBRACKET
                             \o DropFirst(r, n) \o RBRACKET

\* the prefix-trim case has returned, with a core reading in the brackets
C13_Witness ==
    /\ C13_Case
    /\ pc = "done"
    /\ prefixLen(TokenAt(1).kanji, HiraganaAt(1)) < Len(HiraganaAt(1))

\* C14: for a non-passthrough token with prefixLen > 0 and suffixLen > 0 the
\* segment is the prefix kana, middleKanji[middleReading] and the suffix
\* kana, and prefix, middleKanji and suffix concatenate back to the surface;
\* no such token ends the call with an exception.
C14_BothTrim ==
    /\ \A i \in Emitted :
          LET k == TokenAt(i).kanji
              r == HiraganaAt(i)
              a == prefixLen(k, r)
              b == suffixLen(k, r)
              middleKanji == Slice(k, a, Len(k) - b)
              middleReading == Slice(r, a, Len(r) - b)
          IN  (NonPassthrough(TokenAt(i)) /\ a > 0 /\ b > 0) =>
                  /\ out[i] = First(k, a) \o SPACE \o middleKanji \o LBRACKET
                                 \o middleReading \o RBRACKET \o Last(k, b)
                  /\ First(k, a) \o middleKanji \o Last(k, b) = k
    /\ pc = "raised" =>
          ~(/\ NonPassthrough(TokenAt(nodeIdx))
            /\ prefixLen(TokenAt(nodeIdx).kanji, HiraganaAt(nodeIdx)) > 0
            /\ suffixLen(TokenAt(nodeIdx).kanji, HiraganaAt(nodeIdx)) > 0)

\* the case of C15: neither a shared prefix nor a shared suffix
C15_Case ==
    /\ SingleTokenCallOver
    /\ prefixLen(TokenAt(1).kanji, HiraganaAt(1)) = 0
    /\ suffixLen(TokenAt(1).kanji, HiraganaAt(1)) = 0

\* C15: for a single non-passthrough, non-numeral token with prefixLen = 0
\* and suffixLen = 0 the call returns exactly surface[reading], with no
\* surrounding text.
C15_NoOverlap ==
    C15_Case =>
        /\ pc = "done"
        /\ ret = TokenAt(1).kanji \o LBRACKET \o HiraganaAt(1) \o RBRACKET

\* U+5343 U+8449 with the reading U+3061 U+3070 has been returned
C15_Witness ==
    /\ C15_Case
    /\ TokenAt(1).kanji = <<21315, 33865>>
    /\ ret = <<21315, 33865, 91, 12385, 12400, 93>>
-----------------------------------------------------------------------------
(* C16.  One space between a plain segment and a Latin token.              *)

\* the Latin letters and the ASCII digits
LatinOrDigit == (65..90) \cup (97..122) \cup (48..57)

\* segment i is plain and token i + 1 is Latin letters and ASCII digits only
PlainThenLatin(i) ==
    /\ i + 1 <= NumTokens
    /\ out[i] = TokenAt(i).kanji
    /\ Chars(TokenAt(i + 1).kanji) \subseteq LatinOrDigit

\* a token list has been aligned and returned
ReturnedTokenList == pc = "done" /\ TokenList /\ Len(out) = NumTokens

\* C16 as stated: whenever a plain segment is immediately followed by a token
\* of Latin letters or ASCII digits only, exactly one space separates the two
\* in the returned string, for every token list.
C16_ExactlyOneSpace ==
    ReturnedTokenList =>
        /\ ~IsSubstring(SPACE \o SPACE, ret)
        /\ \A i \in Emitted :
              PlainThenLatin(i) =>
                  IsSubstring(out[i] \o SPACE \o TokenAt(i + 1).kanji, ret)

\* everything up to segment i is white space, which the final strip removes
StrippedAway(i) == \A j \in 1..i : \A c \in Chars(out[j]) : IsSpace(c)

\* segment i ends in "<", token i + 1 is "br" and ">" follows it
InsideTag(i) ==
    /\ out[i] # <<>>
    /\ out[i][Len(out[i])] = 60
    /\ TokenAt(i + 1).kanji = <<98, 114>>
    /\ i + 2 <= NumTokens
    /\ out[i + 2] # <<>>
    /\ out[i + 2][1] = 62

\* C16 amended: exactly one space separates the two, except where the final
\* cleanup removes it: when everything before the Latin token is white space
\* that the strip removes, and between "<" and "br" when ">" follows, where
\* the two are joined without a space.
C16_OneSpaceUnlessCleaned ==
    ReturnedTokenList =>
        /\ ~IsSubstring(SPACE \o SPACE, ret)
        /\ \A i \in Emitted :
              PlainThenLatin(i) =>
                  IF InsideTag(i)
                  THEN IsSubstring(out[i] \o TokenAt(i + 1).kanji \o <<62>>, ret)
                  ELSE StrippedAway(i)
                       \/ IsSubstring(out[i] \o SPACE \o TokenAt(i + 1).kanji, ret)

\* a plain segment followed by a reading-less Latin token has been returned
\* with the space kept
C16_Witness ==
    /\ ReturnedTokenList
    /\ \E i \in Emitted :
          /\ PlainThenLatin(i)
          /\ ~InsideTag(i)
          /\ ~StrippedAway(i)
          /\ TokenAt(i + 1).reading = <<>>

-----------------------------------------------------------------------------
(* C17.  The line-break tag.                                               *)

\* tokens i, i + 1, i + 2 are the reading-less "<", "br", ">"
TagAt(i) ==
    /\ i + 2 <= NumTokens
    /\ TokenAt(i) = [ok |-> TRUE, kanji |-> <<60>>, reading |-> <<>>]
    /\ TokenAt(i + 1) = [ok |-> TRUE, kanji |-> <<98, 114>>, reading |-> <<>>]
    /\ TokenAt(i + 2) = [ok |-> TRUE, kanji |-> <<62>>, reading |-> <<>>]

\* the positions of s at which sub begins
Occurrences(sub, s) ==
    {p \in 1..(Len(s) - Len(sub) + 1) : SubSeq(s, p, p + Len(sub) - 1) = sub}

\* C17: when "<br>" is tokenised into the reading-less "<", "br", ">", the
\* returned string has "<br>" for it, the space written before "br" being
\* removed again (one "<br>" for each tag of the token list, with the
\* segments before it in front of it), and no returned string contains
\* "< br>".
C17_TagSurvives ==
    /\ pc = "done" => Occurrences(LT_SP_BR_GT, ret) = {}
    /\ ReturnedTokenList =>
          /\ Cardinality(Occurrences(LT_BR_GT, ret)) = Cardinality({i \in Emitted : TagAt(i)})
          /\ \A i \in Emitted :
                TagAt(i) =>
                    \E p \in Occurrences(LT_BR_GT, ret) :
                        Strip(SubSeq(ret, 1, p - 1))
                            = Strip(Finish(SubSeq(out, 1, i - 1)))

\* a tag between two tokens has been returned
C17_Witness ==
    /\ ReturnedTokenList
    /\ \E i \in Emitted : TagAt(i) /\ i > 1 /\ i + 2 < NumTokens
-----------------------------------------------------------------------------
(* C18.  A click that gets no reading.                                     *)

\* the handler is over, it had called get_reading_for_text, and it got no
\* reading: the call raised, or it returned None or the empty string
FailedClick ==
    /\ hpc \in {"returned", "raised"}
    /\ src_text # <<>>
    /\ NoReading

CouldNotGenerate ==
    {"Could not generate reading for text in 'srcField'.",
     "Could not generate reading, please add your own."}

\* C18: whenever the analyzer is unavailable or produces no reading, the
\* handler that called get_reading_for_text shows a "could not generate
\* reading" message, raises no exception and leaves every note field
\* unchanged, on the first failure as well as on later calls.
C18_FailureIsMessage ==
    FailedClick =>
        /\ hexc = "none"
        /\ Len(info) = 1
        /\ info[1] \in CouldNotGenerate
        /\ <<noteSrc, noteEng>> = noteAtClick

-----------------------------------------------------------------------------
(* C19.  What a result depends on.                                         *)

RECURSIVE Segments(_, _)
\* what the line alone determines: the segments of its nodes in order, an
\* early empty return at a node without the shape, or the IndexError
Segments(ns, acc) ==
    IF ns = <<>> \/ Head(ns) = <<>> THEN [kind |-> "joined", segs |-> acc]
    ELSE LET t == Match(Head(ns))
             h == KakasiReading(t.reading)
         IN  IF ~t.ok THEN [kind |-> "empty", segs |-> <<>>]
             ELSE IF t.kanji = t.reading \/ t.reading = <<>> \/ t.kanji = h
                        \/ IsNumber(t.kanji)
                  THEN Segments(Tail(ns), Append(acc, t.kanji))
             ELSE IF ScanRaises(t.kanji, h) THEN [kind |-> "raises", segs |-> <<>>]
             ELSE Segments(Tail(ns), Append(acc, Annotate(t.kanji, h)))

OutcomeOf(line) == Segments(Split(line, 32), <<>>)

\* get_reading_for_text has returned to the handler, for a non-empty text
Returned == hpc = "got" /\ src_text # <<>>

\* C19 as stated: whatever the history of earlier calls, failed ones
\* included, a call returns what the same call returns after no history at
\* all; for a non-empty text that is never None.
C19_NoHiddenState == Returned => ~result.none

\* C19 amended: a call for a non-empty text returns None exactly when an
\* earlier call of get_reading_for_text has raised; a string that reading()
\* returns, and an IndexError it raises, is determined by the analyzer's line
\* alone, whatever was called before and whichever processes are running.
C19_HiddenStateIsTheFailure ==
    /\ Returned => (result.none <=> everRaised)
    /\ pc = "done" =>
          /\ OutcomeOf(expr).kind \in {"joined", "empty"}
          /\ ret = IF OutcomeOf(expr).kind = "joined"
                    THEN Finish(OutcomeOf(expr).segs)
                    ELSE <<>>
    /\ (pc = "raised" /\ exc = "IndexError") => OutcomeOf(expr).kind = "raises"

\* a call after a failed one has returned None
C19_Witness == Returned /\ result.none /\ everRaised /\ mecabProc = 1

-----------------------------------------------------------------------------
(* C20.  The analyzer processes are started lazily and once.               *)

\* C20: no process is started before the first reading call; the analyzer
\* is started on entering the first call and kakasi at the first node that
\* needs it, each exactly once, and the same handle serves every later
\* call.
C20_StartedOnceAndReused ==
    /\ mecabProc = 0 /\ kakasiProc = 0
    /\ [](mecabProc \in {0, 1} /\ kakasiProc \in {0, 1})
    /\ [][/\ mecabProc # 0 => mecabProc' = mecabProc
          /\ kakasiProc # 0 => kakasiProc' = kakasiProc
          /\ mecabProc' # mecabProc => pc = "idle" /\ pc' = "loop"
          /\ kakasiProc' # kakasiProc => pc = "loop" /\ kakasiLog' # kakasiLog
          /\ (pc = "idle" /\ pc' = "loop") => mecabProc' = 1
          /\ kakasiLog' # kakasiLog /\ kakasiLog' # <<>> => kakasiProc' = 1]_vars

\* a later call is at a node while both processes of an earlier call run
C20_Witness ==
    /\ pc = "loop"
    /\ kakasiLog = <<>>
    /\ mecabProc = 1
    /\ kakasiProc = 1

-----------------------------------------------------------------------------
(* C21.  The space before a kanji core.                                    *)

\* the tokens of the line that were given a bracket
Annotated == {i \in Emitted : out[i] # TokenAt(i).kanji}

\* the positions of "[" in the returned string
Brackets == Occurrences(LBRACKET, ret)

\* the position of the bracket of annotated token i: brackets and annotated
\* tokens come in the same order
BracketOf(i) ==
    CHOOSE p \in Brackets :
        Cardinality({q \in Brackets : q <= p}) = Cardinality({j \in Annotated : j <= i})

\* where the run of non-space characters that ends before position p begins
RunStart(p) == 1 + SetMax({0} \cup {q \in 1..(p - 1) : ret[q] = 32})

\* the kanji core of token i: the surface without the shared ends
CoreOf(i) ==
    Slice(TokenAt(i).kanji,
          prefixLen(TokenAt(i).kanji, HiraganaAt(i)),
          Len(TokenAt(i).kanji) - suffixLen(TokenAt(i).kanji, HiraganaAt(i)))

\* C21: in the returned string the text between the last space and a "[" is
\* the kanji core of its token alone, and that core either begins the string
\* or follows exactly one space, which follows the preceding text (the
\* shared kana prefix of the same token included).
C21_SpaceBeforeCore ==
    ReturnedTokenList =>
        /\ Cardinality(Brackets) = Cardinality(Annotated)
        /\ \A i \in Annotated :
              LET p == BracketOf(i)
                  s == RunStart(p)
              IN  /\ SubSeq(ret, s, p - 1) = CoreOf(i)
                  /\ s = 1 \/ (s > 2 /\ ret[s - 1] = 32 /\ ret[s - 2] # 32)

\* an annotated token follows another token in the returned string
C21_Witness ==
    /\ ReturnedTokenList
    /\ \E i \in Annotated : i > 1 /\ RunStart(BracketOf(i)) > 2

-----------------------------------------------------------------------------
(* C22.  One line out, one line back.                                      *)

\* C22: the escaped text written to the analyzer holds no newline character,
\* so each call writes one line and reads one line, and no answer line of an
\* earlier request is ever left unread in either pipe: the line a call reads
\* is the answer to the line it wrote.
C22_OneLinePerCall ==
    /\ 10 \notin Chars(sent)
    /\ mecabPipe = 0
    /\ kakasiPipe = 0

-----------------------------------------------------------------------------
(* C23.  After a failure the controller is gone for good.                  *)

\* C23: once a call of get_reading_for_text has raised, the module global is
\* None and stays None; every later call returns None, for any text, and
\* MecabController.reading is never entered again: no process is started
\* and nothing is written to or read from a pipe.
C23_ClearedForGood ==
    /\ [](everRaised => ~mecab)
    /\ [][/\ ~mecab => ~mecab'
          /\ everRaised =>
                /\ pc' = "idle"
                /\ sent' = <<>>
                /\ UNCHANGED procVars
          /\ (everRaised /\ hpc = "get") => (hpc' = "got" /\ result' = None)]_vars

\* after a failed start a later call, for a text with markup, has returned
\* None and the analyzer has still not been started
C23_Witness ==
    /\ everRaised
    /\ hpc = "got"
    /\ result.none
    /\ src_text = TextWithMarkup
    /\ mecabProc = 0

-----------------------------------------------------------------------------
(* C24.  The quick action and the note.                                    *)

\* C24: the quick action is all-or-nothing on the note: when it ends with an
\* info message both fields keep the values they had at the click; the
\* fields change only on the path that writes both.
C24_QuickAllOrNothing ==
    (handler = "reading" /\ hpc = "returned") =>
        IF info # <<>>
        THEN <<noteSrc, noteEng>> = noteAtClick
        ELSE noteSrc = result.str /\ noteEng \in Meanings \ {<<>>}

-----------------------------------------------------------------------------
(* The vocabulary wizard (src/wizard.py, class VocabWizard).  The dialog   *)
(* has three pages; the mnemonic stories and the images arrive through     *)
(* QueryOps, whose success callbacks the event loop runs in the order in   *)
(* which the background operations finish.                                 *)

MaxResults == 1         \* images one web search returns at most
MaxMnemonics == 2       \* stories one generation returns at most
MaxRuns == 3            \* times generate_mnemonics and search_images run in one dialog

\* the pages of self.stack, in the order of addWidget (wizard.py:221-223)
Pages == <<"reading_page", "mnemonic_page", "image_page">>

\* the k-th image that the operation `kind` of the no-th search returns
Image(no, kind, k) == [no |-> no, kind |-> kind, k |-> k]
\* what search_google_images can return: a list of 0..MaxResults images
WebResults(no, kind) ==
    {[k \in 1..len |-> Image(no, kind, k)] : len \in 0..MaxResults}
\* what generate_chatgpt_prompt_image can return: None or one image
AiResults(no) == {<<>>, <<Image(no, "ai", 1)>>}

\* a widget of the layout mnemonic_list: a QLabel ("Generating mnemonics...",
\* "Failed to generate mnemonics...") or the container of the k-th story of
\* the no-th generation
Label == [no |-> 0, k |-> 0]
Container(no, k) == [no |-> no, k |-> k]
\* what generate_chatgpt_mnemonics can return: None/[] or 1..MaxMnemonics stories
MnemonicResults(no) ==
    {[k \in 1..len |-> Container(no, k)] : len \in 0..MaxMnemonics}

\* a QueryOp that simple_background_query has started
Query(kind, no, index) == [kind |-> kind, no |-> no, index |-> index]

\* [val for pair in zip(a, b) for val in pair]
Zip(a, b) ==
    [i \in 1..(2 * Min(Len(a), Len(b))) |->
        IF i % 2 = 1 THEN a[(i + 1) \div 2] ELSE b[i \div 2]]

\* add_prompt_images, on the list
PromptImagesAdded(thumbnails, images) ==
    IF Len(thumbnails) < 1 THEN images ELSE Zip(thumbnails, images)

\* add_chatgpt_image, on the list: image_data is <<>> (None) or <<image>>
ChatgptImageAdded(thumbnails, image_data) ==
    IF image_data = <<>> THEN thumbnails ELSE image_data \o thumbnails

\* update_buttons that never hides Finish again
update_buttons_KeepFinish(current, next) ==
    LET is_last_page == current = Len(Pages) - 1
    IN  [back |-> [enabled |-> current > 0],
         next |-> [enabled |-> IF current = 2 /\ prompt_image_data = <<>>
                               THEN FALSE ELSE next.enabled,
                   visible |-> ~is_last_page],
         finish |-> [visible |-> is_last_page \/ finish_button.visible]]

\* update_buttons: the three buttons after the call, `next` being the Next
\* button before it
update_buttons(current, next) ==
    LET is_last_page == current = Len(Pages) - 1
    IN  [back |-> [enabled |-> current > 0],
         next |-> [enabled |-> IF current = 2 /\ prompt_image_data = <<>>
                               THEN FALSE ELSE next.enabled,
                   visible |-> ~is_last_page],
         finish |-> [visible |-> is_last_page]]

\* generate_mnemonics: the list shows the loading label and one query starts
generate_mnemonics ==
    /\ genNo + searchNo < MaxRuns
    /\ genNo' = genNo + 1
    /\ mnemonic_list' = <<Label>>
    /\ queries' = queries \cup {Query("mn", genNo + 1, 0)}

\* search_images: the list and the selection are reset and three queries start
search_images ==
    /\ genNo + searchNo < MaxRuns
    /\ searchNo' = searchNo + 1
    /\ image_thumbnails' = <<>>
    /\ prompt_image_data' = <<>>
    /\ ran' = {}
    /\ queries' = queries \cup {Query(kind, searchNo + 1, 0) : kind \in {"ai", "jp", "en"}}

\* a click on Next (a button that is disabled or hidden cannot be clicked)
go_next ==
    /\ dialog.state = "open"
    /\ next_button.enabled /\ next_button.visible
    /\ LET current == currentIndex
           after == update_buttons(current + 1, next_button)
       IN  IF current < Len(Pages) - 1
           THEN /\ currentIndex' = current + 1
                /\ back_button' = after.back
                /\ finish_button' = after.finish
                /\ next_button' =
                      IF current + 1 \in {1, 2}
                      THEN [after.next EXCEPT !.enabled = FALSE]
                      ELSE after.next
                /\ IF current + 1 = 1
                   THEN /\ generate_mnemonics
                        /\ UNCHANGED <<searchNo, image_thumbnails, prompt_image_data, ran>>
                   ELSE /\ search_images
                        /\ UNCHANGED <<genNo, mnemonic_list>>
           ELSE UNCHANGED <<currentIndex, back_button, finish_button, next_button,
                            genNo, mnemonic_list, queries, searchNo,
                            image_thumbnails, prompt_image_data, ran>>
    /\ UNCHANGED <<selected_mnemonic_index, mnemonic_editors, dialog>>
    /\ UNCHANGED <<readingVars, procVars, editorVars, pageVars>>

\* a click on Back
go_back ==
    /\ dialog.state = "open"
    /\ back_button.enabled
    /\ LET current == currentIndex
           after == update_buttons(current - 1, next_button)
       IN  IF current > 0
           THEN /\ currentIndex' = current - 1
                /\ back_button' = after.back
                /\ next_button' = after.next
                /\ finish_button' = after.finish
           ELSE UNCHANGED <<currentIndex, back_button, next_button, finish_button>>
    /\ UNCHANGED <<prompt_image_data, selected_mnemonic_index, image_thumbnails,
                   mnemonic_list, mnemonic_editors, queries,
                   searchNo, genNo, ran, dialog>>
    /\ UNCHANGED <<readingVars, procVars, editorVars, pageVars>>

\* a click on "Generate New Mnemonics", the button of the mnemonic page
refresh_mnemonic_button ==
    /\ dialog.state = "open"
    /\ currentIndex = 1
    /\ generate_mnemonics
    /\ UNCHANGED <<currentIndex, back_button, next_button, finish_button,
                   prompt_image_data, selected_mnemonic_index, image_thumbnails,
                   mnemonic_editors, searchNo, ran, dialog>>
    /\ UNCHANGED <<readingVars, procVars, editorVars, pageVars>>

\* a click on "Search Again", the button of the image page
refresh_button ==
    /\ dialog.state = "open"
    /\ currentIndex = 2
    /\ search_images
    /\ UNCHANGED <<currentIndex, back_button, next_button, finish_button,
                   selected_mnemonic_index, mnemonic_list, mnemonic_editors, genNo, dialog>>
    /\ UNCHANGED <<readingVars, procVars, editorVars, pageVars>>

\* the callback of a mnemonic query: the stories replace the list; no story
\* leaves the error label and the old mnemonic_editors.  (The illustration
\* queries that lines 520-563 start for the stories only fill
\* mnemonic_images, which adds an <img> to the text of the selected story.)
display_mnemonics ==
    /\ dialog.state = "open"
    /\ \E q \in queries : \E mnemonics \in MnemonicResults(q.no) :
        /\ q.kind = "mn"
        /\ IF Len(mnemonics) = 0
           THEN /\ mnemonic_list' = <<Label>>
                /\ queries' = queries \ {q}
                /\ UNCHANGED mnemonic_editors
           ELSE /\ mnemonic_list' = mnemonics
                /\ mnemonic_editors' = Attr(<<mnemonics>>)
                /\ queries' = queries \ {q}
    /\ UNCHANGED <<currentIndex, back_button, next_button, finish_button,
                   prompt_image_data, selected_mnemonic_index, image_thumbnails, searchNo, genNo, ran, dialog>>
    /\ UNCHANGED <<readingVars, procVars, editorVars, pageVars>>

\* a click on the radio button of the story `index` that the page shows
select_mnemonic ==
    /\ dialog.state = "open"
    /\ currentIndex = 1
    /\ \E index \in 0..(Len(mnemonic_list) - 1) :
        /\ mnemonic_list[index + 1] # Label
        /\ selected_mnemonic_index' = <<index>>
    /\ next_button' = [next_button EXCEPT !.enabled = TRUE]
    /\ UNCHANGED <<currentIndex, back_button, finish_button, prompt_image_data,
                   image_thumbnails, mnemonic_list, mnemonic_editors, queries, searchNo, genNo, ran, dialog>>
    /\ UNCHANGED <<readingVars, procVars, editorVars, pageVars>>

\* the callback of the AI image query
add_chatgpt_image ==
    /\ dialog.state = "open"
    /\ \E q \in queries : \E image_data \in AiResults(q.no) :
        /\ q.kind = "ai"
        /\ queries' = queries \ {q}
        /\ image_thumbnails' = ChatgptImageAdded(image_thumbnails, image_data)
        /\ ran' = IF q.no = searchNo
                  THEN ran \cup {[kind |-> q.kind, result |-> image_data]}
                  ELSE ran
    /\ UNCHANGED <<currentIndex, back_button, next_button, finish_button,
                   prompt_image_data, selected_mnemonic_index, mnemonic_list,
                   mnemonic_editors, searchNo, genNo, dialog>>
    /\ UNCHANGED <<readingVars, procVars, editorVars, pageVars>>

\* the callback of one of the two web searches
add_prompt_images ==
    /\ dialog.state = "open"
    /\ \E q \in queries : \E images \in WebResults(q.no, q.kind) :
        /\ q.kind \in {"jp", "en"}
        /\ queries' = queries \ {q}
        /\ image_thumbnails' = PromptImagesAdded(image_thumbnails, images)
        /\ ran' = IF q.no = searchNo
                  THEN ran \cup {[kind |-> q.kind, result |-> images]}
                  ELSE ran
    /\ UNCHANGED <<currentIndex, back_button, next_button, finish_button,
                   prompt_image_data, selected_mnemonic_index, mnemonic_list,
                   mnemonic_editors, searchNo, genNo, dialog>>
    /\ UNCHANGED <<readingVars, procVars, editorVars, pageVars>>

\* a background operation raises (no API key, a network error): QueryOp
\* reports the error and the success callback never runs
QueryFailed ==
    /\ dialog.state = "open"
    /\ \E q \in queries : queries' = queries \ {q}
    /\ UNCHANGED <<currentIndex, back_button, next_button, finish_button,
                   prompt_image_data, selected_mnemonic_index, image_thumbnails,
                   mnemonic_list, mnemonic_editors, searchNo,
                   genNo, ran, dialog>>
    /\ UNCHANGED <<readingVars, procVars, editorVars, pageVars>>

\* a click on one of the images that the grid shows
select_image ==
    /\ dialog.state = "open"
    /\ currentIndex = 2
    /\ \E i \in 1..Len(image_thumbnails) :
        prompt_image_data' = <<image_thumbnails[i]>>
    /\ next_button' = [next_button EXCEPT !.enabled = TRUE]
    /\ UNCHANGED <<currentIndex, back_button, finish_button,
                   selected_mnemonic_index, image_thumbnails, mnemonic_list,
                   mnemonic_editors, queries, searchNo, genNo,
                   ran, dialog>>
    /\ UNCHANGED <<readingVars, procVars, editorVars, pageVars>>

\* get_selected_mnemonic: None, the text of the selected editor, or the
\* exception of reading an editor that is not there (IndexError) or whose
\* widget clear_mnemonic_list has deleted (RuntimeError)
get_selected_mnemonic ==
    IF selected_mnemonic_index = <<>> THEN "None"
    ELSE IF selected_mnemonic_index[1] >= Len(mnemonic_editors.val[1]) THEN "IndexError"
    ELSE IF mnemonic_list # mnemonic_editors.val[1] THEN "RuntimeError"
    ELSE "text"

\* get_prompt_html: None, or the <img> tag of the saved image
get_prompt_html ==
    IF prompt_image_data = <<>> THEN "None" ELSE "html"

\* a click on Finish: the dialog is accepted and the handler asks it for the
\* selected mnemonic and image (wizard.py:715-729)
accept ==
    /\ dialog.state = "open"
    /\ finish_button.visible
    /\ dialog' = [state |-> "accepted", mnemonic |-> get_selected_mnemonic,
                  image |-> IF get_selected_mnemonic \in {"IndexError", "RuntimeError"}
                            THEN "none" ELSE get_prompt_html]
    /\ UNCHANGED <<currentIndex, back_button, next_button, finish_button,
                   prompt_image_data, selected_mnemonic_index, image_thumbnails,
                   mnemonic_list, mnemonic_editors, queries,
                   searchNo, genNo, ran>>
    /\ UNCHANGED <<readingVars, procVars, editorVars, pageVars>>

NextWizard ==
    \/ go_next
    \/ go_back
    \/ refresh_mnemonic_button
    \/ refresh_button
    \/ display_mnemonics
    \/ select_mnemonic
    \/ add_chatgpt_image
    \/ add_prompt_images
    \/ QueryFailed
    \/ select_image
    \/ accept

SpecWizard == Init /\ [][NextWizard]_vars

-----------------------------------------------------------------------------
(* C25.  Navigation of the wizard.                                         *)

\* C25: after any sequence of Next and Back, the page index is one of the
\* three pages, Back is enabled exactly when the index is above 0, Finish is
\* visible exactly on the last page and Next exactly on the others.
C25_Navigation ==
    /\ currentIndex \in 0..(Len(Pages) - 1)
    /\ back_button.enabled <=> currentIndex > 0
    /\ finish_button.visible <=> currentIndex = Len(Pages) - 1
    /\ next_button.visible <=> currentIndex # Len(Pages) - 1

\* the mnemonic page shown again after the last page was visited
C25_Witness ==
    /\ currentIndex = 1
    /\ searchNo > 0
    /\ back_button.enabled
    /\ next_button.visible
    /\ ~finish_button.visible

-----------------------------------------------------------------------------
(* C26.  Next on the reading page.                                         *)

\* C26: whenever the wizard shows the reading page (page 0), the Next button
\* is enabled, so that the user who went to the mnemonic page and came back
\* can advance again.
C26_NextEnabledOnReadingPage ==
    (dialog.state = "open" /\ currentIndex = 0) => next_button.enabled

-----------------------------------------------------------------------------
(* C27.  Next on the mnemonic page.                                        *)

\* the stories that the mnemonic page shows now
ShownStories == {i \in 0..(Len(mnemonic_list) - 1) : mnemonic_list[i + 1] # Label}

\* C27: on the mnemonic page Next is enabled only while a story of the list
\* that is shown now is selected: selected_mnemonic_index is not None and is
\* the index of a story on display.
C27_NextNeedsShownSelection ==
    (dialog.state = "open" /\ currentIndex = 1 /\ next_button.enabled) =>
        /\ selected_mnemonic_index # <<>>
        /\ selected_mnemonic_index[1] \in ShownStories

-----------------------------------------------------------------------------
(* C28.  The image list of one search.                                     *)

\* what the callback `kind` of the search was given
ResultOf(kind) == (CHOOSE r \in ran : r.kind = kind).result
\* the dialog has searched once and the three callbacks have all run
AllCallbacksRan == searchNo = 1 /\ {r.kind : r \in ran} = {"ai", "jp", "en"}
\* the list when the callbacks arrive in the order the queries were started
ListInStartOrder ==
    PromptImagesAdded(
        PromptImagesAdded(ChatgptImageAdded(<<>>, ResultOf("ai")), ResultOf("jp")),
        ResultOf("en"))

\* C28: once the three callbacks of one image search have all run, the list
\* on display holds every result of the two web searches, and it is the same
\* list whatever the order in which the callbacks arrived.
C28_AllResultsInAnyOrder ==
    AllCallbacksRan =>
        /\ \A kind \in {"jp", "en"} :
              Chars(ResultOf(kind)) \subseteq Chars(image_thumbnails)
        /\ image_thumbnails = ListInStartOrder

-----------------------------------------------------------------------------
(* C29.  Search Again.                                                     *)

\* C29: the image list only ever holds results of the most recent search; the
\* callback of a superseded search that is still in flight adds nothing to it.
C29_OnlyLatestSearch ==
    \A i \in 1..Len(image_thumbnails) : image_thumbnails[i].no = searchNo

-----------------------------------------------------------------------------
(* The pages of src/mnemonic_page.py and src/prompt_image_page.py: the     *)
(* mnemonic list and the image grid of the wizard as widgets of their own. *)

\* MnemonicPage.generate_mnemonics, also the slot of "Generate New Mnemonics"
MnemonicPage_generate_mnemonics ==
    /\ mnemonicPage.genNo + promptImagePage.searchNo < MaxRuns
    /\ mnemonicPage' = [mnemonicPage EXCEPT !.genNo = @ + 1,
                                            !.mnemonic_list = <<Label>>]
    /\ pageQueries' = pageQueries \cup {Query("mn", mnemonicPage.genNo + 1, 0)}
    /\ UNCHANGED promptImagePage
    /\ UNCHANGED <<readingVars, procVars, editorVars, wizardVars>>

\* MnemonicPage.display_mnemonics, the callback of a mnemonic query: the
\* stories replace the list, each with a query for its illustration; no story
\* leaves the error label and the old attributes
MnemonicPage_display_mnemonics ==
    /\ \E q \in pageQueries : \E mnemonics \in MnemonicResults(q.no) :
        /\ q.kind = "mn"
        /\ IF Len(mnemonics) = 0
           THEN /\ mnemonicPage' = [mnemonicPage EXCEPT !.mnemonic_list = <<Label>>]
                /\ pageQueries' = pageQueries \ {q}
           ELSE /\ mnemonicPage' =
                      [mnemonicPage EXCEPT
                          !.mnemonic_list = mnemonics,
                          !.mnemonic_editors = Attr(<<mnemonics>>),
                          !.mnemonic_images = [i \in 1..Len(mnemonics) |-> FALSE]]
                /\ pageQueries' = (pageQueries \ {q}) \cup
                      {Query("pic", q.no, i - 1) : i \in 1..Len(mnemonics)}
    /\ UNCHANGED promptImagePage
    /\ UNCHANGED <<readingVars, procVars, editorVars, wizardVars>>

\* MnemonicPage.select_mnemonic: a click on the radio button of a story on
\* display
MnemonicPage_select_mnemonic ==
    /\ \E index \in 0..(Len(mnemonicPage.mnemonic_list) - 1) :
        /\ mnemonicPage.mnemonic_list[index + 1] # Label
        /\ mnemonicPage' =
              [mnemonicPage EXCEPT !.selected_mnemonic_index = Attr(<<index>>)]
    /\ UNCHANGED <<promptImagePage, pageQueries>>
    /\ UNCHANGED <<readingVars, procVars, editorVars, wizardVars>>

\* MnemonicPage.update_mnemonic_image, the callback of an illustration query:
\* nothing without an image; with one, mnemonic_images[index] is assigned,
\* which raises IndexError and changes nothing when the list has become
\* shorter than the index
MnemonicPage_update_mnemonic_image ==
    /\ \E q \in pageQueries : \E image_data \in BOOLEAN :
        /\ q.kind = "pic"
        /\ pageQueries' = pageQueries \ {q}
        /\ mnemonicPage' =
              IF image_data /\ q.index < Len(mnemonicPage.mnemonic_images)
              THEN [mnemonicPage EXCEPT !.mnemonic_images[q.index + 1] = TRUE]
              ELSE mnemonicPage
    /\ UNCHANGED promptImagePage
    /\ UNCHANGED <<readingVars, procVars, editorVars, wizardVars>>

\* MnemonicPage.get_selected_mnemonic: what the call returns or raises
MnemonicPage_get_selected_mnemonic ==
    LET index == mnemonicPage.selected_mnemonic_index
        editors == mnemonicPage.mnemonic_editors
    IN  IF ~index.set THEN "AttributeError"
        ELSE IF index.val = <<>> THEN "None"
        ELSE IF ~editors.set THEN "AttributeError"
        ELSE IF index.val[1] >= Len(editors.val[1]) THEN "IndexError"
        ELSE IF mnemonicPage.mnemonic_list # editors.val[1] THEN "RuntimeError"
        ELSE "text"

\* PromptImagePage.search_images, also the slot of "Search Again" and the
\* last step of set_reading_and_definition
PromptImagePage_search_images ==
    /\ mnemonicPage.genNo + promptImagePage.searchNo < MaxRuns
    /\ promptImagePage' = [promptImagePage EXCEPT
                              !.searchNo = @ + 1,
                              !.image_thumbnails = <<>>,
                              !.prompt_image_data = Attr(<<>>)]
    /\ pageQueries' = pageQueries \cup
          {Query(kind, promptImagePage.searchNo + 1, 0) : kind \in {"ai", "jp", "en"}}
    /\ UNCHANGED mnemonicPage
    /\ UNCHANGED <<readingVars, procVars, editorVars, wizardVars>>

\* PromptImagePage.add_chatgpt_image, the callback of the AI image query
PromptImagePage_add_chatgpt_image ==
    /\ \E q \in pageQueries : \E image_data \in AiResults(q.no) :
        /\ q.kind = "ai"
        /\ pageQueries' = pageQueries \ {q}
        /\ promptImagePage' =
              [promptImagePage EXCEPT
                  !.image_thumbnails = ChatgptImageAdded(@, image_data)]
    /\ UNCHANGED mnemonicPage
    /\ UNCHANGED <<readingVars, procVars, editorVars, wizardVars>>

\* PromptImagePage.add_prompt_images, the callback of a web search
PromptImagePage_add_prompt_images ==
    /\ \E q \in pageQueries : \E images \in WebResults(q.no, q.kind) :
        /\ q.kind \in {"jp", "en"}
        /\ pageQueries' = pageQueries \ {q}
        /\ promptImagePage' =
              [promptImagePage EXCEPT
                  !.image_thumbnails = PromptImagesAdded(@, images)]
    /\ UNCHANGED mnemonicPage
    /\ UNCHANGED <<readingVars, procVars, editorVars, wizardVars>>

\* PromptImagePage.select_image: a click on an image of the grid
PromptImagePage_select_image ==
    /\ \E i \in 1..Len(promptImagePage.image_thumbnails) :
        promptImagePage' =
            [promptImagePage EXCEPT
                !.prompt_image_data = Attr(<<promptImagePage.image_thumbnails[i]>>)]
    /\ UNCHANGED <<mnemonicPage, pageQueries>>
    /\ UNCHANGED <<readingVars, procVars, editorVars, wizardVars>>

\* PromptImagePage.get_prompt_html: what the call returns or raises
PromptImagePage_get_prompt_html ==
    LET data == promptImagePage.prompt_image_data
    IN  IF ~data.set THEN "AttributeError"
        ELSE IF data.val = <<>> THEN "None"
        ELSE "html"

\* a background operation of a page raises: no callback runs
PageQueryFailed ==
    /\ \E q \in pageQueries : pageQueries' = pageQueries \ {q}
    /\ UNCHANGED <<mnemonicPage, promptImagePage>>
    /\ UNCHANGED <<readingVars, procVars, editorVars, wizardVars>>

NextPages ==
    \/ MnemonicPage_generate_mnemonics
    \/ MnemonicPage_display_mnemonics
    \/ MnemonicPage_select_mnemonic
    \/ MnemonicPage_update_mnemonic_image
    \/ PromptImagePage_search_images
    \/ PromptImagePage_add_chatgpt_image
    \/ PromptImagePage_add_prompt_images
    \/ PromptImagePage_select_image
    \/ PageQueryFailed

SpecPages == Init /\ [][NextPages]_vars

-----------------------------------------------------------------------------
(* C30.  Asking a page for the selection.                                  *)

\* a page attribute that holds a selection
HoldsSelection(attribute) == attribute.set /\ attribute.val # <<>>

\* C30: while nothing is selected, MnemonicPage.get_selected_mnemonic and
\* PromptImagePage.get_prompt_html return None and do not raise, after any
\* sequence of page operations and after none.
C30_NoSelectionGivesNone ==
    /\ ~HoldsSelection(mnemonicPage.selected_mnemonic_index) =>
          MnemonicPage_get_selected_mnemonic = "None"
    /\ ~HoldsSelection(promptImagePage.prompt_image_data) =>
          PromptImagePage_get_prompt_html = "None"

=============================================================================
